---- MODULE Spec2Model ----
(***************************************************************************)
(* Annotation layout of the 1D viewer (app/src/viewer_1d/annotations.rs): *)
(* an AnnotSlot, its lock-guarded AnnotSlotDynamics, and the layout task  *)
(* that AnnotSlot::update spawns on the tokio runtime.                     *)
(* The ConfigMap of src/config.rs is modelled beside it, in the variable   *)
(* cfg, with a specification of its own (SpecConfig), and so is the        *)
(* Annots1D that holds the slots, in annots_1d (SpecAnnots1D).             *)
(*                                                                         *)
(* Conventions.  Option<T> is a sequence of length at most one: None is   *)
(* <<>> and Some(x) is <<x>>.  A range or interval is a pair <<lo, hi>>.  *)
(* Screen coordinates (f32 in the source) are kept on the integer grid:   *)
(* views are restricted to lengths that divide the screen width, so the   *)
(* linear map of anchor_interval is exact; the view transform rounds down.*)
(* A Vec2 is modelled by its x component, the only one layout reads.      *)
(***************************************************************************)
EXTENDS Integers, Sequences, FiniteSets, TLC

VARIABLES
    annots,       \* AnnotSlot.annots: the Range Index, a sequence of [from, to, data]
    shape_fns,    \* AnnotSlot.shape_fns: shape_fns[i + 1] is the width callback i renders
    dynamics,     \* AnnotSlot.dynamics (the value inside the Mutex)
    task,         \* AnnotSlot.task: Option<JoinHandle>, the handle being a task id
    positions,    \* AnnotSlot.positions: sequence of <<annot_id, x>>
    shape_sizes,  \* AnnotSlot.shape_sizes: sequence of <<annot_id, width>>
    lock,         \* the tokio Mutex around dynamics: None, or Some(task id) holding it
    tasks,        \* the runtime: task id -> task record, for every task not yet reaped
    op,           \* the operation that produced this state, with its arguments
    hist,         \* history of the run: see HistInit; of an Annots1D, its insertions
    cfg,          \* a ConfigMap (src/config.rs): [map, schema]
    annots_1d     \* an Annots1D: [slots, next_slot_id, path_annot_slot]

\* the fields of the slot, the lock and the runtime
slot_vars == <<annots, shape_fns, dynamics, task, positions, shape_sizes, lock, tasks>>

vars == <<annots, shape_fns, dynamics, task, positions, shape_sizes, lock, tasks, op,
          hist, cfg, annots_1d>>

----------------------------------------------------------------------------
\* Bounds of the model

\* largest pangenome coordinate
MaxBp == 4

\* task ids the runtime can hand out at one time
MaxTasks == 2

\* cap of the tick counts kept in hist
MaxFrames == 3

----------------------------------------------------------------------------
\* Option and arithmetic helpers

None == <<>>

Some(x) == <<x>>

Max(a, b) == IF a >= b THEN a ELSE b

Min(a, b) == IF a <= b THEN a ELSE b

Abs(a) == IF a < 0 THEN -a ELSE a

\* all orders in which the elements of a sequence can be visited
Orders(s) ==
    { o \in [1..Len(s) -> 1..Len(s)] : \A i, j \in 1..Len(s) : i # j => o[i] # o[j] }

----------------------------------------------------------------------------
\* Inputs supplied by the caller of update

\* egui::Rect, reduced to <<left, right>>
ScreenRects == { <<0, 4>> }

\* lengths of the views: each divides the width of every screen rect
ViewLens == {2, 4}

\* View1D ranges within the pangenome
Views == { v \in (0..MaxBp) \X (0..MaxBp) : v[2] - v[1] \in ViewLens }

----------------------------------------------------------------------------
\* The path index of waragraph_core (PathIndex), as far as the slot
\* constructors use it: node lengths, and each path as its sequence of nodes.
\* PathId p is Graph.paths[p + 1]; a PathId beyond the table is unknown.

Graph == [ node_len |-> <<2, 2>>, paths |-> << <<1, 2>> >> ]

\* PathIndex::node_length
node_length(graph, node) == graph.node_len[node]

\* offset, in the path, at which step i of the path starts
RECURSIVE StepOffset(_, _, _)
StepOffset(graph, steps, i) ==
    IF i = 1 THEN 0
    ELSE StepOffset(graph, steps, i - 1) + node_length(graph, steps[i - 1])

\* PathIndex::path_step_range_iter: None for an unknown path, else the steps of
\* the path that the range crosses, in path order, each as <<start offset, node>>
path_step_range_iter(graph, path, path_range) ==
    IF path + 1 \notin DOMAIN graph.paths THEN None
    ELSE LET steps == graph.paths[path + 1]
             crossed(i) ==
                 LET o == StepOffset(graph, steps, i)
                 IN  o < path_range[2]
                     /\ o + node_length(graph, steps[i]) > path_range[1]
         IN  Some(SelectSeq([i \in 1..Len(steps) |->
                                <<StepOffset(graph, steps, i), steps[i], crossed(i)>>],
                            LAMBDA st : st[3]))

----------------------------------------------------------------------------
\* AnnotSlot constructors.  A slot is [annots, shape_fns]; the other fields
\* start as Default (see SlotInit).

\* rstar::Line::new((from, 0), (to, 0)) tagged with its AnnotationId
TreeObj(from, to, a_id) == [from |-> from, to |-> to, data |-> a_id]

\* AnnotSlot::new_from_pangenome_space: annotations is a sequence of
\* [range, shape]; AnnotationId is the 0-based position in the input
new_from_pangenome_space(annotations) ==
    [ annots    |-> [i \in 1..Len(annotations) |->
                       TreeObj(annotations[i].range[1], annotations[i].range[2], i - 1)],
      shape_fns |-> [i \in 1..Len(annotations) |-> annotations[i].shape] ]

\* the tree objects of one path-space annotation: one per step, the end
\* clamped to the end of the path range
PathAnnotObjs(graph, a_id, path, path_range) ==
    LET steps == path_step_range_iter(graph, path, path_range)
    IN  IF steps = None THEN <<>>
        ELSE [k \in 1..Len(steps[1]) |->
                 LET start == steps[1][k][1]
                     len   == node_length(graph, steps[1][k][2])
                     end   == Min(start + len, path_range[2])
                 IN  TreeObj(start, end, a_id)]

\* variant of PathShapeStored: the callback is pushed inside the `if let
\* Some(steps)`, so an annotation on an unknown path stores none
PathShapeStoredIfSteps(graph, path, path_range) ==
    path_step_range_iter(graph, path, path_range) # None

\* whether the callback of a path-space annotation is stored in the table
\* (line 810: always, before the steps are looked up)
PathShapeStored(graph, path, path_range) == TRUE

RECURSIVE PathSpaceFold(_, _, _, _)
PathSpaceFold(graph, annotations, n, acc) ==
    IF n > Len(annotations) THEN acc
    ELSE LET a    == annotations[n]
             a_id == n - 1
         IN  PathSpaceFold(graph, annotations, n + 1,
                 [ shape_fns |-> IF PathShapeStored(graph, a.path, a.range)
                                 THEN Append(acc.shape_fns, a.shape)
                                 ELSE acc.shape_fns,
                   annots    |-> acc.annots \o PathAnnotObjs(graph, a_id, a.path, a.range) ])

\* AnnotSlot::new_from_path_space: annotations is a sequence of
\* [path, range, shape]
new_from_path_space(graph, annotations) ==
    PathSpaceFold(graph, annotations, 1, [annots |-> <<>>, shape_fns |-> <<>>])

----------------------------------------------------------------------------
\* AnnotSlotDynamics

\* AnnotObj::empty
AnnotObjEmpty(annot_id) ==
    [ annot_id |-> annot_id, anchor_target_pos |-> None, anchor_pos |-> None,
      shape_size |-> None ]

\* AnnotSlotDynamics::default (deltas is never read and is left out)
DynamicsDefault ==
    [ annot_obj_map |-> <<>>, annot_shape_objs |-> <<>>,
      cur_view |-> None, prev_view |-> None, visible_set |-> {} ]

\* variant of get_or_insert_annot_obj_mut: a new object is pushed whether or
\* not the annotation has one
AlwaysInsertAnnotObj(dyn, a_id) ==
    LET obj_i == Len(dyn.annot_shape_objs) + 1
    IN  [dyn EXCEPT !.annot_obj_map =
                        [a \in DOMAIN @ \cup {a_id} |-> IF a = a_id THEN obj_i ELSE @[a]],
                    !.annot_shape_objs = Append(@, AnnotObjEmpty(a_id))]

\* AnnotSlotDynamics::get_or_insert_annot_obj_mut: the dynamics with an object
\* for a_id present
get_or_insert_annot_obj_mut(dyn, a_id) ==
    IF a_id \in DOMAIN dyn.annot_obj_map THEN dyn
    ELSE LET obj_i == Len(dyn.annot_shape_objs) + 1
         IN  [dyn EXCEPT !.annot_obj_map = @ @@ (a_id :> obj_i),
                         !.annot_shape_objs = Append(@, AnnotObjEmpty(a_id))]

\* AnnotSlotDynamics::get_annot_obj
get_annot_obj(dyn, a_id) ==
    IF a_id \in DOMAIN dyn.annot_obj_map
    THEN Some(dyn.annot_shape_objs[dyn.annot_obj_map[a_id]])
    ELSE None

\* variant of anchor_interval: the range is mapped without being clipped
AnchorIntervalUnclipped(view, pan_range, screen_interval) ==
    IF pan_range[1] > view[2] \/ pan_range[2] < view[1] THEN None
    ELSE LET vlen == view[2] - view[1]
             slen == screen_interval[2] - screen_interval[1]
         IN  Some(<<screen_interval[1] + ((pan_range[1] - view[1]) * slen) \div vlen,
                    screen_interval[1] + ((pan_range[2] - view[1]) * slen) \div vlen>>)

\* anchor_interval: the screen interval of pan_range clipped to the view, None
\* when pan_range lies wholly beyond the view
anchor_interval(view, pan_range, screen_interval) ==
    LET pleft  == pan_range[1]
        pright == pan_range[2]
    IN  IF pleft > view[2] \/ pright < view[1] THEN None
        ELSE LET vlen    == view[2] - view[1]
                 left    == Max(pleft, view[1])
                 right   == Min(pright, view[2])
                 sleft   == screen_interval[1]
                 slen    == screen_interval[2] - screen_interval[1]
                 a_left  == sleft + ((left - view[1]) * slen) \div vlen
                 a_right == sleft + ((right - view[1]) * slen) \div vlen
             IN  Some(<<a_left, a_right>>)

\* RTree::locate_in_envelope_intersecting on the box (view.start, 0)..(view.end, 0):
\* the lines whose (closed) envelope meets the closed view interval
locate_in_envelope_intersecting(tree, view) ==
    SelectSeq(tree, LAMBDA o : Min(o.from, o.to) <= view[2] /\ Max(o.from, o.to) >= view[1])

\* prepare, lines 185-204: annot id -> its anchor ranges, in the order of the query
CollectAnnotRanges(tree, screen_rect, view) ==
    LET hits   == locate_in_envelope_intersecting(tree, view)
        ivs    == [i \in 1..Len(hits) |->
                      [ id |-> hits[i].data,
                        r  |-> anchor_interval(view, <<hits[i].from, hits[i].to>>, screen_rect) ]]
        kept   == SelectSeq(ivs, LAMBDA h : h.r # None)
        ids    == { kept[i].id : i \in 1..Len(kept) }
    IN  [a \in ids |->
            LET mine == SelectSeq(kept, LAMBDA h : h.id = a)
            IN  [k \in 1..Len(mine) |-> mine[k].r[1]]]

\* variant of ClosestTarget: a containing range does not end the loop
RECURSIVE ClosestTargetNoBreak(_, _, _, _, _)
ClosestTargetNoBreak(tgt, ranges, i, dist, closest_tgt) ==
    IF i > Len(ranges) THEN closest_tgt
    ELSE LET range == ranges[i]
         IN  IF tgt >= range[1] /\ tgt <= range[2]
             THEN ClosestTargetNoBreak(tgt, ranges, i + 1, dist, Some(tgt))
             ELSE LET closest  == IF tgt < range[1] THEN range[1] ELSE range[2]
                      new_dist == Abs(closest - tgt)
                  IN  IF dist = None \/ new_dist < dist[1]
                      THEN ClosestTargetNoBreak(tgt, ranges, i + 1, Some(new_dist),
                                                Some(closest))
                      ELSE ClosestTargetNoBreak(tgt, ranges, i + 1, dist, closest_tgt)

\* prepare, lines 220-245: the loop over the ranges of one annotation that has a
\* target; dist is None for f32::INFINITY
RECURSIVE ClosestTarget(_, _, _, _, _)
ClosestTarget(tgt, ranges, i, dist, closest_tgt) ==
    IF i > Len(ranges) THEN closest_tgt
    ELSE LET range == ranges[i]
         IN  IF tgt >= range[1] /\ tgt <= range[2] THEN Some(tgt)
             ELSE LET closest  == IF tgt < range[1] THEN range[1] ELSE range[2]
                      new_dist == Abs(closest - tgt)
                  IN  IF dist = None \/ new_dist < dist[1]
                      THEN ClosestTarget(tgt, ranges, i + 1, Some(new_dist), Some(closest))
                      ELSE ClosestTarget(tgt, ranges, i + 1, dist, closest_tgt)

\* variant of ConstrainTarget: only the first range is looked at
ConstrainToFirstRange(tgt, ranges) ==
    LET closest_tgt == ClosestTarget(tgt, SubSeq(ranges, 1, 1), 1, None, None)
    IN  IF closest_tgt # None THEN closest_tgt[1] ELSE tgt

\* prepare, lines 219-249: the target of an annotation that already has one
ConstrainTarget(tgt, ranges) ==
    LET closest_tgt == ClosestTarget(tgt, ranges, 1, None, None)
    IN  IF closest_tgt # None THEN closest_tgt[1] ELSE tgt

\* WeightedIndex::new(&lens) is Ok: some weight, none negative, not all zero
WeightedIndexOk(ranges) ==
    /\ Len(ranges) > 0
    /\ \A i \in 1..Len(ranges) : ranges[i][2] - ranges[i][1] >= 0
    /\ \E i \in 1..Len(ranges) : ranges[i][2] - ranges[i][1] > 0

\* variant of NewTargets: the point drawn is an offset into the range, the
\* start of the range not added
NewTargetsOffsetOnly(ranges) ==
    UNION { 0..(ranges[ix][2] - ranges[ix][1]) :
              ix \in { i \in 1..Len(ranges) : ranges[i][2] - ranges[i][1] > 0 } }

\* prepare, lines 259-262: the points rng.sample(dist) and rng.gen_range can
\* yield: a point of a range of positive weight
NewTargets(ranges) ==
    UNION { ranges[ix][1]..ranges[ix][2] :
              ix \in { i \in 1..Len(ranges) : ranges[i][2] - ranges[i][1] > 0 } }

\* whether the body of prepare's loop panics for an annotation (the unwrap of
\* WeightedIndex::new, line 259)
PreparePanics(dyn, a_id, ranges) ==
    /\ get_annot_obj(dyn, a_id) = None \/ get_annot_obj(dyn, a_id)[1].anchor_target_pos = None
    /\ ~WeightedIndexOk(ranges)

\* prepare, lines 212-270, for one annotation: the dynamics after the loop body
\* when the fresh target drawn (if one is drawn) is anchor_target
PrepareAnnot(dyn, a_id, ranges, anchor_target) ==
    LET d1    == get_or_insert_annot_obj_mut(dyn, a_id)
        obj_i == d1.annot_obj_map[a_id]
        obj   == d1.annot_shape_objs[obj_i]
        tgt   == IF obj.anchor_target_pos # None
                 THEN ConstrainTarget(obj.anchor_target_pos[1], ranges)
                 ELSE anchor_target
    IN  [d1 EXCEPT !.annot_shape_objs[obj_i].anchor_target_pos = Some(tgt),
                   !.visible_set = @ \cup {a_id}]

\* Viewer1D::sample_index_transform: the affine map from old to new screen
\* space as [a, b] = [num[1] / den, num[2] / den]
sample_index_transform(v0, v1) ==
    [ num |-> <<v0[2] - v0[1], v1[1] - v0[1]>>, den |-> v1[2] - v1[1] ]

\* update_simple, lines 437-444: the transform, None when the view did not change
ViewTransform(dyn) ==
    IF dyn.prev_view # None /\ dyn.cur_view # None /\ dyn.prev_view # dyn.cur_view
    THEN Some(sample_index_transform(dyn.prev_view[1], dyn.cur_view[1]))
    ELSE None

\* update_simple, lines 472-481: apply_tf on an Option<f32>
apply_tf(tf, screen_rect, val) ==
    IF val = None THEN None
    ELSE LET w  == screen_rect[2] - screen_rect[1]
             x0 == screen_rect[1]
             v  == val[1] - x0
             v_ == (v * tf.num[1] - w * tf.num[2]) \div tf.den
         IN  Some(v_ + x0)

\* update_simple, lines 452-456: the footprint width of an object, the measured
\* one or else 1.0
Width(obj) == IF obj.shape_size # None THEN obj.shape_size[1] ELSE 1

\* the ids update_simple applies the transform to (line 448)
TransformedIds(dyn) == dyn.visible_set

\* update_simple, lines 437-486: the dynamics when the function reaches line 490
UpdateSimpleDynamics(dyn, screen_rect) ==
    LET transform == ViewTransform(dyn)
    IN  IF transform = None THEN dyn
        ELSE [dyn EXCEPT !.annot_shape_objs =
                [i \in 1..Len(@) |->
                    IF @[i].annot_id \in TransformedIds(dyn)
                    THEN [@[i] EXCEPT
                            !.anchor_target_pos = apply_tf(transform[1], screen_rect, @),
                            !.anchor_pos = apply_tf(transform[1], screen_rect, @)]
                    ELSE @[i]]]

\* a task's Result<Vec<(AnnotationId, Vec2)>, JoinError>
Ok(list) == [ok |-> TRUE, val |-> list]

Panicked == [ok |-> FALSE, val |-> <<>>]

\* update_simple, lines 488-503: todo!() panics before any list is built
UpdateSimpleResult(dyn, screen_rect) == Panicked

----------------------------------------------------------------------------
\* ConfigMap (src/config.rs).  A rhai::Dynamic is [type, v]: the TypeId of the
\* value it holds and the value, as a number; a rhai::Map is a function from
\* its keys.

Dyn(type, v) == [type |-> type, v |-> v]

\* Dynamic::FALSE, Dynamic::UNIT
DynFALSE == Dyn("bool", 0)

DynUNIT == Dyn("()", 0)

\* EvalResult::Err
EvalErr == [ok |-> FALSE, val |-> DynUNIT]

\* config::new_config_map: ConfigMap::default()
new_config_map == [map |-> <<>>, schema |-> None]

\* the map with val stored under key (rhai::Map::insert)
MapInsert(map, key, val) ==
    [k \in DOMAIN map \cup {key} |-> IF k = key THEN val ELSE map[k]]

\* variant of type_matches: every value is taken to match
TypeMatchesAlways(c, key, val) == TRUE

\* set_str_key_dyn, lines 76-83
type_matches(c, key, val) ==
    IF c.schema # None /\ key \in DOMAIN c.schema[1]
    THEN c.schema[1][key] = val.type
    ELSE TRUE

\* config::set_str_key_dyn: the ConfigMap after the call and the value returned
set_str_key_dyn(c, key, val) ==
    IF type_matches(c, key, val)
    THEN [ cfg |-> [c EXCEPT !.map = MapInsert(c.map, key, val)],
           ret |-> Ok(IF key \in DOMAIN c.map THEN c.map[key] ELSE DynUNIT) ]
    ELSE [ cfg |-> c, ret |-> Ok(DynFALSE) ]

\* config::get_str_key
get_str_key(c, key) ==
    [ cfg |-> c, ret |-> Ok(IF key \in DOMAIN c.map THEN c.map[key] ELSE DynUNIT) ]

\* f.call_within_context(&ctx, (v,)) for the script functions of FnPtrs: the
\* returned Dynamic, or None when the call is an error
Call(f, v) ==
    CASE f = "flip"  -> Some(Dyn(v.type, IF v.type = "()" THEN 0 ELSE 1 - v.v))
      [] f = "one"   -> Some(Dyn("i64", 1))
      [] f = "unit"  -> Some(DynUNIT)
      [] f = "throw" -> None

\* variant of update: the result is stored and returned whatever its type
UpdateStoresAnyType(c, key, f) ==
    IF key \in DOMAIN c.map
    THEN LET result == Call(f, c.map[key])
         IN  IF result = None THEN [cfg |-> c, ret |-> EvalErr]
             ELSE [ cfg |-> [c EXCEPT !.map[key] = result[1]], ret |-> Ok(result[1]) ]
    ELSE [cfg |-> c, ret |-> Ok(DynUNIT)]

\* config::update
update(c, key, f) ==
    IF key \in DOMAIN c.map
    THEN LET val    == c.map[key]
             result == Call(f, val)
         IN  IF result = None THEN [cfg |-> c, ret |-> EvalErr]
             ELSE IF val.type = result[1].type
                  THEN [ cfg |-> [c EXCEPT !.map[key] = result[1]], ret |-> Ok(result[1]) ]
                  ELSE [ cfg |-> c, ret |-> Ok(DynFALSE) ]
    ELSE [cfg |-> c, ret |-> Ok(DynUNIT)]

----------------------------------------------------------------------------
\* Annots1D (lines 18-54): the slots of the viewer, under ids counted by
\* next_slot_id, and the slot of each path

\* #[derive(Default)]: no slot, next_slot_id AnnotSlotId(0), no path
Annots1DDefault == [slots |-> <<>>, next_slot_id |-> 0, path_annot_slot |-> <<>>]

\* variant of insert_slot: next_slot_id is not advanced
InsertSlotSameId(a, path, slot) ==
    LET slot_id == a.next_slot_id
    IN  [ annots_1d |-> [a EXCEPT !.slots = MapInsert(@, slot_id, slot),
                                  !.path_annot_slot = MapInsert(@, path, slot_id)],
          ret |-> slot_id ]

\* variant of insert_slot: a path that has a slot keeps it
InsertSlotKeepPath(a, path, slot) ==
    LET slot_id == a.next_slot_id
    IN  [ annots_1d |-> [a EXCEPT !.slots = MapInsert(@, slot_id, slot),
                                  !.path_annot_slot =
                                      IF path \in DOMAIN @ THEN @
                                      ELSE MapInsert(@, path, slot_id),
                                  !.next_slot_id = slot_id + 1],
          ret |-> slot_id ]

\* Annots1D::insert_slot: the Annots1D after the call and the id returned.  The
\* id is a u32; the model stays far below the 2^32 insertions that exhaust it
insert_slot(a, path, slot) ==
    LET slot_id == a.next_slot_id
    IN  [ annots_1d |-> [a EXCEPT !.slots = MapInsert(@, slot_id, slot),
                                  !.path_annot_slot = MapInsert(@, path, slot_id),
                                  !.next_slot_id = slot_id + 1],
          ret |-> slot_id ]

\* Annots1D::get_path_slot_id
get_path_slot_id(a, path) ==
    IF path \in DOMAIN a.path_annot_slot THEN Some(a.path_annot_slot[path]) ELSE None

\* Annots1D::get
get(a, slot_id) ==
    IF slot_id \in DOMAIN a.slots THEN Some(a.slots[slot_id]) ELSE None

----------------------------------------------------------------------------
\* The slot and the runtime

\* annotation batches the slot of the scheduling model is built from
PangenomeBatches ==
    { << [range |-> <<0, 2>>, shape |-> 2], [range |-> <<2, 4>>, shape |-> 2] >>,
      << [range |-> <<1, 3>>, shape |-> 4] >>,
      << [range |-> <<0, 1>>, shape |-> 2], [range |-> <<3, 4>>, shape |-> 2] >> }

PathBatches ==
    { << [path |-> 0, range |-> <<1, 4>>, shape |-> 2] >>,
      << [path |-> 1, range |-> <<0, 2>>, shape |-> 2],
         [path |-> 0, range |-> <<0, 2>>, shape |-> 2] >> }

\* the operation recorded in op
Op(name, screen_rect, view) == [name |-> name, screen_rect |-> screen_rect, view |-> view]

\* the record, in op, of one pass of the loop of prepare (lines 212-270): the
\* annotation it handled and the target the annotation had before
AnchorOp(a_id) ==
    [ name |-> "anchor", a_id |-> a_id,
      old_tgt |-> IF get_annot_obj(dynamics, a_id) = None THEN None
                  ELSE get_annot_obj(dynamics, a_id)[1].anchor_target_pos ]

\* The history of a run.
\*   faulted:   a layout task has panicked
\*   prompt:    no tick so far found its task unfinished
\*   task_age:  ticks since the tick that spawned the outstanding task
\*   harvested: None, or Some(ticks since the tick that spawned the task joined
\*              last), the tick counts being kept only while prompt holds
HistInit == [faulted |-> FALSE, prompt |-> TRUE, task_age |-> 0, harvested |-> None]

\* one more tick, up to the cap
Older(age) == Min(age + 1, MaxFrames)

HistHarvest ==
    IF hist.prompt
    THEN [hist EXCEPT !.task_age = 0, !.harvested = Some(Older(hist.task_age))]
    ELSE hist

HistPending == [HistInit EXCEPT !.faulted = hist.faulted, !.prompt = FALSE]

HistSpawn ==
    IF hist.prompt /\ hist.harvested # None
    THEN [hist EXCEPT !.task_age = 0, !.harvested = Some(Older(hist.harvested[1]))]
    ELSE hist

HistTaskEnd(result) == [hist EXCEPT !.faulted = @ \/ ~result.ok]

\* the fields both constructors set besides annots and shape_fns (lines 784-791,
\* 824-831), and the runtime with no task
SlotInit(slot) ==
    /\ annots = slot.annots
    /\ shape_fns = slot.shape_fns
    /\ dynamics = DynamicsDefault
    /\ task = None
    /\ positions = <<>>
    /\ shape_sizes = <<>>
    /\ lock = None
    /\ tasks = <<>>
    /\ op = Op("new", None, None)
    /\ hist = HistInit
    /\ cfg = new_config_map
    /\ annots_1d = Annots1DDefault

Init ==
    \/ \E batch \in PangenomeBatches : SlotInit(new_from_pangenome_space(batch))
    \/ \E batch \in PathBatches : SlotInit(new_from_path_space(Graph, batch))

\* JoinHandle::is_finished
is_finished(t) == tasks[t].pc = "finished"

\* variant of SpawnAllowed: update spawns whether or not a handle is stored
SpawnAlways == TRUE

\* variant of SpawnAllowed: a slot whose task panicked spawns no more
SpawnUnlessFaulted == task = None /\ ~hist.faulted

\* update, line 841 and 850, and update_spawn_task, lines 862-864: a task is
\* spawned only when the slot holds no handle
SpawnAllowed == task = None

\* variant of HandleAfterPoll: the handle taken at line 841 is not put back
DropHandle(h, finished) == None

\* update, lines 843-849: the handle the slot keeps after polling handle h
HandleAfterPoll(h, finished) == IF finished THEN None ELSE Some(h)

\* update, lines 844-846: the positions after joining a finished task
PositionsAfterJoin(result) == IF result.ok THEN result.val ELSE positions

\* update_spawn_task, lines 866-874: the measured sizes merged into the dynamics
RECURSIVE MergeShapeSizes(_, _, _)
MergeShapeSizes(dyn, sizes, i) ==
    IF i > Len(sizes) THEN dyn
    ELSE LET a_id == sizes[i][1]
             next == IF a_id \in DOMAIN dyn.annot_obj_map
                     THEN [dyn EXCEPT
                             !.annot_shape_objs[dyn.annot_obj_map[a_id]].shape_size =
                                 Some(sizes[i][2])]
                     ELSE dyn
         IN  MergeShapeSizes(next, sizes, i + 1)

\* variant of TaskInputs: the task is given the view of the previous task
StaleTaskInputs(screen_rect, view) ==
    [ screen_rect |-> screen_rect,
      view |-> IF dynamics.cur_view # None THEN dynamics.cur_view[1] ELSE view ]

\* the view and screen rect update_spawn_task moves into the task (lines 876-886)
TaskInputs(screen_rect, view) == [screen_rect |-> screen_rect, view |-> view]

\* a task as rt.spawn leaves it: not yet polled, about to await the lock (line 882)
NewTask(inputs) ==
    [ pc |-> "spawned", view |-> inputs.view, screen_rect |-> inputs.screen_rect,
      annot_ranges |-> <<>>, todo |-> {}, result |-> None ]

\* variant of GuardDropped: the guard outlives the task
GuardLeaked == lock

\* the lock once the task's MutexGuard is dropped, at the end of the async
\* block or while a panic unwinds it (lines 881-886)
GuardDropped == None

\* a task id the runtime does not use
FreeTaskIds == (1..MaxTasks) \ DOMAIN tasks

\* tasks without task t
Reap(t) == [u \in (DOMAIN tasks) \ {t} |-> tasks[u]]

\* the stored callback applied in draw (lines 896-899): the measured size
MeasuredSize(a_id) == shape_fns[a_id + 1]

----------------------------------------------------------------------------
\* AnnotSlot::update, one action per branch

\* lines 841-846: the task is finished; join it
UpdateHarvest(screen_rect, view) ==
    /\ task # None
    /\ is_finished(task[1])
    /\ positions' = PositionsAfterJoin(tasks[task[1]].result[1])
    /\ task' = HandleAfterPoll(task[1], TRUE)
    /\ tasks' = Reap(task[1])
    /\ op' = Op("update", screen_rect, view)
    /\ hist' = HistHarvest
    /\ UNCHANGED <<annots_1d, cfg, annots, shape_fns, dynamics, shape_sizes, lock>>

\* lines 847-849: the task is not finished; put the handle back
UpdatePending(screen_rect, view) ==
    /\ task # None
    /\ ~is_finished(task[1])
    /\ task' = HandleAfterPoll(task[1], FALSE)
    /\ op' = Op("update", screen_rect, view)
    /\ hist' = HistPending
    /\ UNCHANGED <<annots_1d, cfg, annots, shape_fns, dynamics, positions, shape_sizes, lock, tasks>>

\* lines 850-852 and update_spawn_task: blocking_lock returns once the lock is
\* free; merge the sizes, release, spawn
UpdateSpawn(screen_rect, view) ==
    /\ SpawnAllowed
    /\ lock = None
    /\ FreeTaskIds # {}
    /\ LET t == CHOOSE u \in FreeTaskIds : \A w \in FreeTaskIds : u <= w
       IN  /\ tasks' = tasks @@ (t :> NewTask(TaskInputs(screen_rect, view)))
           /\ task' = Some(t)
    /\ dynamics' = MergeShapeSizes(dynamics, shape_sizes, 1)
    /\ op' = Op("update", screen_rect, view)
    /\ hist' = HistSpawn
    /\ UNCHANGED <<annots_1d, cfg, annots, shape_fns, positions, shape_sizes, lock>>

Update(screen_rect, view) ==
    \/ UpdateHarvest(screen_rect, view)
    \/ UpdatePending(screen_rect, view)
    \/ UpdateSpawn(screen_rect, view)

\* AnnotSlot::draw
Draw ==
    /\ shape_sizes' = [i \in 1..Len(positions) |->
                          <<positions[i][1], MeasuredSize(positions[i][1])>>]
    /\ op' = Op("draw", None, None)
    /\ UNCHANGED <<annots_1d, cfg, annots, shape_fns, dynamics, task, positions, lock, tasks, hist>>

----------------------------------------------------------------------------
\* The layout task (the async block of lines 881-886), one action per step

\* line 882: dynamics.lock().await returns the guard
TaskLock(t) ==
    /\ tasks[t].pc = "spawned"
    /\ lock = None
    /\ lock' = Some(t)
    /\ tasks' = [tasks EXCEPT ![t].pc = "prepare"]
    /\ op' = Op("task", None, None)
    /\ UNCHANGED <<annots_1d, cfg, annots, shape_fns, dynamics, task, positions, shape_sizes, hist>>

\* prepare, lines 170-206: the windowed query; the views shift; the visible
\* set is cleared
TaskPrepareQuery(t) ==
    /\ tasks[t].pc = "prepare"
    /\ LET annot_ranges == CollectAnnotRanges(annots, tasks[t].screen_rect, tasks[t].view)
       IN  tasks' = [tasks EXCEPT ![t].pc = "anchors",
                                  ![t].annot_ranges = annot_ranges,
                                  ![t].todo = DOMAIN annot_ranges]
    /\ dynamics' = [dynamics EXCEPT !.prev_view = dynamics.cur_view,
                                    !.cur_view = Some(tasks[t].view),
                                    !.visible_set = {}]
    /\ op' = Op("task", None, None)
    /\ UNCHANGED <<annots_1d, cfg, annots, shape_fns, task, positions, shape_sizes, lock, hist>>

\* prepare, lines 212-270: the loop body for one annotation, the annotations
\* taken in the HashMap's order and each one's ranges in the tree's; the body
\* panics at the unwrap of line 259, and the unwinding drops the guard
TaskPrepareAnnot(t) ==
    /\ tasks[t].pc = "anchors"
    /\ \E a_id \in tasks[t].todo :
         \E order \in Orders(tasks[t].annot_ranges[a_id]) :
           LET ranges == [k \in 1..Len(order) |-> tasks[t].annot_ranges[a_id][order[k]]]
           IN  /\ op' = AnchorOp(a_id)
               /\ IF PreparePanics(dynamics, a_id, ranges)
                  THEN /\ dynamics' = get_or_insert_annot_obj_mut(dynamics, a_id)
                       /\ tasks' = [tasks EXCEPT ![t].pc = "finished",
                                                 ![t].todo = {},
                                                 ![t].annot_ranges = <<>>,
                                                 ![t].result = Some(Panicked)]
                       /\ lock' = GuardDropped
                       /\ hist' = HistTaskEnd(Panicked)
                  ELSE /\ \E anchor_target \in
                               (IF WeightedIndexOk(ranges) THEN NewTargets(ranges) ELSE {0}) :
                             dynamics' = PrepareAnnot(dynamics, a_id, ranges, anchor_target)
                       /\ tasks' = [tasks EXCEPT ![t].todo = @ \ {a_id}]
                       /\ lock' = lock
                       /\ hist' = hist
    /\ UNCHANGED <<annots_1d, cfg, annots, shape_fns, task, positions, shape_sizes>>

\* update_simple, then the guard is dropped and the task is finished
TaskUpdateSimple(t) ==
    /\ tasks[t].pc = "anchors"
    /\ tasks[t].todo = {}
    /\ dynamics' = UpdateSimpleDynamics(dynamics, tasks[t].screen_rect)
    /\ tasks' = [tasks EXCEPT ![t].pc = "finished",
                              ![t].annot_ranges = <<>>,
                              ![t].result =
                                  Some(UpdateSimpleResult(dynamics', tasks[t].screen_rect))]
    /\ lock' = GuardDropped
    /\ hist' = HistTaskEnd(tasks'[t].result[1])
    /\ op' = Op("task", None, None)
    /\ UNCHANGED <<annots_1d, cfg, annots, shape_fns, task, positions, shape_sizes>>

Next ==
    \/ \E screen_rect \in ScreenRects, view \in Views : Update(screen_rect, view)
    \/ Draw
    \/ \E t \in DOMAIN tasks : TaskLock(t)
    \/ \E t \in DOMAIN tasks : TaskPrepareQuery(t)
    \/ \E t \in DOMAIN tasks : TaskPrepareAnnot(t)
    \/ \E t \in DOMAIN tasks : TaskUpdateSimple(t)

Spec == Init /\ [][Next]_vars

----------------------------------------------------------------------------
\* The constructors on their own: a slot is built from any batch of at most
\* MaxAnnots annotations

MaxAnnots == 2

BpRanges == (0..MaxBp) \X (0..MaxBp)

Batches(items) == UNION { [1..n -> items] : n \in 0..MaxAnnots }

AllPangenomeBatches == Batches([range : BpRanges, shape : {2}])

AllPathBatches == Batches([path : {0, 1}, range : BpRanges, shape : {2}])

\* no slot built yet: the state of SlotInit with an empty index
InitCtor == SlotInit(new_from_pangenome_space(<<>>))

\* the record, in op, of a constructor call: its name and its annotations
CtorOp(name, annotations) == [name |-> name, annotations |-> annotations]

Built(name, annotations, slot) ==
    /\ annots' = slot.annots
    /\ shape_fns' = slot.shape_fns
    /\ op' = CtorOp(name, annotations)
    /\ UNCHANGED <<annots_1d, cfg, dynamics, task, positions, shape_sizes, lock, tasks, hist>>

BuildFromPangenomeSpace ==
    /\ op.name = "new"
    /\ \E batch \in AllPangenomeBatches :
          Built("new_from_pangenome_space", batch, new_from_pangenome_space(batch))

BuildFromPathSpace ==
    /\ op.name = "new"
    /\ \E batch \in AllPathBatches :
          Built("new_from_path_space", batch, new_from_path_space(Graph, batch))

NextCtor == BuildFromPangenomeSpace \/ BuildFromPathSpace

SpecCtor == InitCtor /\ [][NextCtor]_vars

----------------------------------------------------------------------------
\* The ConfigMap on its own: a map created by new_config_map, given any schema
\* over the keys, and driven through set, get and update

Keys == {"a", "b"}

TypeIds == {"bool", "i64", "()"}

DynValues == { Dyn("bool", 0), Dyn("bool", 1), Dyn("i64", 0), Dyn("i64", 1), DynUNIT }

FnPtrs == {"flip", "one", "unit", "throw"}

\* Option<Arc<BTreeMap<ImmutableString, TypeId>>>
Schemas == {None} \cup { Some(sch) : sch \in UNION { [ks -> TypeIds] : ks \in SUBSET Keys } }

InitConfig ==
    /\ annots = <<>> /\ shape_fns = <<>> /\ dynamics = DynamicsDefault
    /\ task = None /\ positions = <<>> /\ shape_sizes = <<>>
    /\ lock = None /\ tasks = <<>>
    /\ hist = HistInit
    /\ op = Op("new", None, None)
    /\ annots_1d = Annots1DDefault
    /\ \E schema \in Schemas : cfg = [new_config_map EXCEPT !.schema = schema]

\* the record, in op, of a call on the ConfigMap
ConfigOp(name, key, arg, ret) == [name |-> name, key |-> key, arg |-> arg, ret |-> ret]

ConfigSet ==
    \E key \in Keys, val \in DynValues :
        /\ cfg' = set_str_key_dyn(cfg, key, val).cfg
        /\ op' = ConfigOp("set", key, val, set_str_key_dyn(cfg, key, val).ret)
        /\ UNCHANGED <<slot_vars, hist, annots_1d>>

ConfigGet ==
    \E key \in Keys :
        /\ cfg' = get_str_key(cfg, key).cfg
        /\ op' = ConfigOp("get", key, None, get_str_key(cfg, key).ret)
        /\ UNCHANGED <<slot_vars, hist, annots_1d>>

ConfigUpdate ==
    \E key \in Keys, f \in FnPtrs :
        /\ cfg' = update(cfg, key, f).cfg
        /\ op' = ConfigOp("update", key, f, update(cfg, key, f).ret)
        /\ UNCHANGED <<slot_vars, hist, annots_1d>>

NextConfig == ConfigSet \/ ConfigGet \/ ConfigUpdate

SpecConfig == InitConfig /\ [][NextConfig]_vars

----------------------------------------------------------------------------
\* An Annots1D on its own: slots built by the constructor are inserted for the
\* paths, at most MaxSlots times, and looked up by id and by path

MaxSlots == 3

MaxPaths == 2

PathIds == 0..(MaxPaths - 1)

\* the ids asked of get: those of the slots there can be, and one more
AnnotSlotIds == 0..MaxSlots

InitAnnots1D ==
    /\ annots = <<>> /\ shape_fns = <<>> /\ dynamics = DynamicsDefault
    /\ task = None /\ positions = <<>> /\ shape_sizes = <<>>
    /\ lock = None /\ tasks = <<>>
    /\ cfg = new_config_map
    /\ hist = <<>>
    /\ op = Op("new", None, None)
    /\ annots_1d = Annots1DDefault

\* the record, in op and in hist, of insert_slot(path, slot) returning ret
InsertOp(path, slot, ret) ==
    [name |-> "insert_slot", path |-> path, slot |-> slot, ret |-> ret]

InsertSlot ==
    /\ Len(hist) < MaxSlots
    /\ \E path \in PathIds, batch \in PangenomeBatches :
          LET slot == new_from_pangenome_space(batch)
              call == insert_slot(annots_1d, path, slot)
          IN  /\ annots_1d' = call.annots_1d
              /\ op' = InsertOp(path, slot, call.ret)
              /\ hist' = Append(hist, InsertOp(path, slot, call.ret))
              /\ UNCHANGED <<slot_vars, cfg>>

GetSlot ==
    \E slot_id \in AnnotSlotIds :
        /\ op' = [name |-> "get", slot_id |-> slot_id, ret |-> get(annots_1d, slot_id)]
        /\ UNCHANGED <<slot_vars, cfg, hist, annots_1d>>

GetPathSlotId ==
    \E path \in PathIds :
        /\ op' = [name |-> "get_path_slot_id", path |-> path,
                  ret |-> get_path_slot_id(annots_1d, path)]
        /\ UNCHANGED <<slot_vars, cfg, hist, annots_1d>>

NextAnnots1D == InsertSlot \/ GetSlot \/ GetPathSlotId

SpecAnnots1D == InitAnnots1D /\ [][NextAnnots1D]_vars

----------------------------------------------------------------------------
\* Properties

\* a step of AnnotSlot::update
Tick == op'.name = "update"

\* a tick of the spawning branch is possible
SpawnTick == \E screen_rect \in ScreenRects, view \in Views : UpdateSpawn(screen_rect, view)

\* C1: a slot has at most one layout task spawned and not yet harvested, and it
\* is the one whose handle the slot stores; a tick adds no task to the runtime
\* while one is outstanding
C1_SingleFlight ==
    /\ [](Cardinality(DOMAIN tasks) <= 1 /\ (task # None => DOMAIN tasks = {task[1]}))
    /\ [][(Tick /\ task # None) => DOMAIN tasks' \subseteq DOMAIN tasks]_vars

\* a tick has found the outstanding task unfinished
C1_Witness ==
    /\ op.name = "update" /\ ~hist.prompt
    /\ task # None /\ tasks[task[1]].pc # "finished"

\* C2: a tick that finds the outstanding task unfinished changes neither the
\* positions, the measured sizes, the dynamics nor the handle, and touches
\* neither the lock nor the task
C2_PendingTickIdle ==
    [][(Tick /\ task # None /\ ~is_finished(task[1]))
          => UNCHANGED <<positions, shape_sizes, dynamics, task, lock, tasks>>]_vars

\* a tick returned while the task held the lock, in the middle of prepare
C2_Witness ==
    /\ op.name = "update"
    /\ task # None /\ lock = task /\ tasks[task[1]].pc = "anchors"

\* C3: a tick that finds the outstanding task finished replaces the positions by
\* the task's result list and clears the handle
C3_HarvestReplacesPositions ==
    [][(Tick /\ task # None /\ is_finished(task[1]))
          => /\ tasks[task[1]].result[1].ok
             /\ positions' = tasks[task[1]].result[1].val
             /\ task' = None]_vars

\* the shape size object i of the dynamics has after the sizes were merged
MergedSize(i) ==
    LET a_id == dynamics.annot_shape_objs[i].annot_id
        ks   == { k \in 1..Len(shape_sizes) : shape_sizes[k][1] = a_id }
    IN  IF ks = {} THEN dynamics.annot_shape_objs[i].shape_size
        ELSE Some(shape_sizes[CHOOSE k \in ks : \A j \in ks : j <= k][2])

\* the order of a task's steps: lock, windowed query, anchor selection, then
\* update_simple (transform, placement)
PcOrder ==
    { <<"spawned", "prepare">>, <<"prepare", "anchors">>, <<"anchors", "anchors">>,
      <<"anchors", "finished">> }

C5_LockUncontended ==
    /\ task = None => (lock = None /\ DOMAIN tasks = {})
    /\ \A t \in DOMAIN tasks : tasks[t].pc = "spawned" => lock = None

\* the frame loop is about to take the lock after a task held it
C5_Witness == op.name = "update" /\ task = None /\ hist.faulted

\* C6: every spawned task runs to completion: none aborts
C6_TasksRunToCompletion == ~hist.faulted

\* C7 as stated: once a task has panicked no task is launched any more and the
\* positions never change
C7_StalledAfterPanic ==
    [][hist.faulted => (DOMAIN tasks' \subseteq DOMAIN tasks /\ positions' = positions)]_vars

\* C7, amended: the tick that joins a panicked task keeps the positions and
\* clears the handle, and the slot is not stalled: the next tick can and does
\* launch a new task
C7_PanicIsRetried ==
    /\ []((hist.faulted /\ task = None) => ENABLED SpawnTick)
    /\ [][/\ (Tick /\ task # None /\ is_finished(task[1])
                /\ ~tasks[task[1]].result[1].ok)
              => (positions' = positions /\ task' = None)
          /\ (Tick /\ task = None /\ hist.faulted)
              => (task' # None /\ positions' = positions)]_vars

\* a task was launched after another one panicked
C7_Witness ==
    /\ hist.faulted /\ op.name = "update"
    /\ task # None /\ tasks[task[1]].pc = "spawned"

C9_IdsHaveCallbacks ==
    \A i \in 1..Len(annots) : annots[i].data \in 0..(Len(shape_fns) - 1)

\* a path-space slot whose first annotation left nothing in the index
C9_Witness ==
    /\ op.name = "new_from_path_space"
    /\ Len(shape_fns) = 2
    /\ annots # <<>>
    /\ \A i \in 1..Len(annots) : annots[i].data = 1

\* every range of the index has start < end
WellFormedSlot == \A i \in 1..Len(annots) : annots[i].from < annots[i].to

\* C10: on a well-formed slot every layout task returns a result list
C10_TasksReturnLists ==
    WellFormedSlot =>
        \A t \in DOMAIN tasks : tasks[t].pc = "finished" => tasks[t].result[1].ok

----------------------------------------------------------------------------
\* Construction and the windowed query

\* C11: no interval of the Range Index of a constructed slot has start >= end
C11_NoMalformedRanges ==
    op.name \in {"new_from_pangenome_space", "new_from_path_space"}
        => \A i \in 1..Len(annots) : annots[i].from < annots[i].to

\* the half-open range of tree object o meets the half-open view
Intersects(o, view) == Max(o.from, view[1]) < Min(o.to, view[2])

\* the image of coordinate x under the linear map of [view.start, view.end]
\* onto [screen.left, screen.right]
ScreenOf(x, view, screen_rect) ==
    screen_rect[1] + ((x - view[1]) * (screen_rect[2] - screen_rect[1])) \div (view[2] - view[1])

\* C12: once a task has run the windowed query, every range of the index that
\* intersects the task's view has put its annotation among the candidates, with
\* the range clipped to the view and mapped linearly onto the screen as one of
\* its anchor intervals, and that interval lies inside the screen, left <= right
C12_ClippedAnchorIntervals ==
    \A t \in DOMAIN tasks : tasks[t].pc = "anchors" =>
        \A i \in 1..Len(annots) : Intersects(annots[i], tasks[t].view) =>
            LET view == tasks[t].view
                rect == tasks[t].screen_rect
                iv   == << ScreenOf(Max(annots[i].from, view[1]), view, rect),
                           ScreenOf(Min(annots[i].to, view[2]), view, rect) >>
                a    == annots[i].data
            IN  /\ a \in DOMAIN tasks[t].annot_ranges
                /\ \E k \in 1..Len(tasks[t].annot_ranges[a]) : tasks[t].annot_ranges[a][k] = iv
                /\ rect[1] <= iv[1] /\ iv[1] <= iv[2] /\ iv[2] <= rect[2]

\* the query has returned a range that starts inside the view and ends beyond it
C12_Witness ==
    \E t \in DOMAIN tasks :
        /\ tasks[t].pc = "anchors"
        /\ \E i \in 1..Len(annots) :
              /\ Intersects(annots[i], tasks[t].view)
              /\ annots[i].from > tasks[t].view[1]
              /\ annots[i].to > tasks[t].view[2]

\* the nodes of the path that the range of a path-space annotation crosses
NodesCrossed(a) ==
    LET steps == path_step_range_iter(Graph, a.path, a.range)
    IN  IF steps = None THEN 0 ELSE Len(steps[1])

\* C18: a slot built from path-space ranges stores, for each annotation, one
\* interval per node its range crosses, tagged with the annotation's id, and
\* every stored interval lies inside the declared range of its annotation
C18_PathRangesSplitAndClamped ==
    op.name = "new_from_path_space" =>
        /\ \A n \in 1..Len(op.annotations) :
              Cardinality({ i \in 1..Len(annots) : annots[i].data = n - 1 })
                  = NodesCrossed(op.annotations[n])
        /\ \A i \in 1..Len(annots) :
              /\ annots[i].data + 1 \in 1..Len(op.annotations)
              /\ op.annotations[annots[i].data + 1].range[1] <= annots[i].from
              /\ annots[i].to <= op.annotations[annots[i].data + 1].range[2]

\* the index ranges of annotation a that intersect the half-open view
VisibleRanges(a, view) ==
    { i \in 1..Len(annots) : annots[i].data = a /\ Intersects(annots[i], view) }

\* C20: an index range whose intersection with the half-open view is empty
\* gives its annotation no candidate sub-range (an annotation has as many
\* candidates as ranges that intersect the view) and does not make it visible
C20_NoCandidateWithoutIntersection ==
    \A t \in DOMAIN tasks : tasks[t].pc = "anchors" =>
        /\ \A a \in DOMAIN tasks[t].annot_ranges :
              Len(tasks[t].annot_ranges[a]) = Cardinality(VisibleRanges(a, tasks[t].view))
        /\ \A a \in dynamics.visible_set : VisibleRanges(a, tasks[t].view) # {}

----------------------------------------------------------------------------
\* Anchor selection

\* the last step was a pass of prepare's loop, in task t, for an annotation
\* whose target lay in none of its visible sub-ranges
TargetWasOutside(t) ==
    /\ op.name = "anchor" /\ op.old_tgt # None
    /\ tasks[t].pc = "anchors"
    /\ op.a_id \in DOMAIN tasks[t].annot_ranges
    /\ \A k \in 1..Len(tasks[t].annot_ranges[op.a_id]) :
          \/ op.old_tgt[1] < tasks[t].annot_ranges[op.a_id][k][1]
          \/ op.old_tgt[1] > tasks[t].annot_ranges[op.a_id][k][2]

\* the endpoints of the visible sub-ranges of annotation a in task t
Endpoints(t, a) ==
    UNION { { tasks[t].annot_ranges[a][k][1], tasks[t].annot_ranges[a][k][2] } :
              k \in 1..Len(tasks[t].annot_ranges[a]) }

\* C13: when the target of an annotation lies in none of its visible sub-ranges,
\* anchor selection moves it to an endpoint of those sub-ranges, and no endpoint
\* of any of them is nearer to the old target
C13_SnapsToNearestEndpoint ==
    \A t \in DOMAIN tasks : TargetWasOutside(t) =>
        LET old == op.old_tgt[1]
            new == get_annot_obj(dynamics, op.a_id)[1].anchor_target_pos
        IN  /\ new # None
            /\ new[1] \in Endpoints(t, op.a_id)
            /\ \A e \in Endpoints(t, op.a_id) : Abs(new[1] - old) <= Abs(e - old)

\* a target beyond both of an annotation's sub-ranges was moved
C13_Witness ==
    \E t \in DOMAIN tasks :
        /\ TargetWasOutside(t)
        /\ Len(tasks[t].annot_ranges[op.a_id]) = 2
        /\ get_annot_obj(dynamics, op.a_id)[1].anchor_target_pos # op.old_tgt

\* the last step was a pass of prepare's loop, in task t, for an annotation
\* whose target lay within sub-range k of its visible sub-ranges
TargetWasInside(t, k) ==
    /\ op.name = "anchor" /\ op.old_tgt # None
    /\ tasks[t].pc = "anchors"
    /\ op.a_id \in DOMAIN tasks[t].annot_ranges
    /\ k \in 1..Len(tasks[t].annot_ranges[op.a_id])
    /\ tasks[t].annot_ranges[op.a_id][k][1] <= op.old_tgt[1]
    /\ op.old_tgt[1] <= tasks[t].annot_ranges[op.a_id][k][2]

\* C21: an annotation whose target lies within at least one of its visible
\* sub-ranges, bounds included, keeps exactly that target, in whatever order the
\* sub-ranges are examined (an annotation has at most one sub-range per
\* interval of the index)
C21_TargetInsideIsKept ==
    \A t \in DOMAIN tasks :
        (\E k \in 1..Len(annots) : TargetWasInside(t, k)) =>
            get_annot_obj(dynamics, op.a_id)[1].anchor_target_pos = op.old_tgt

\* the target lay within one of two sub-ranges and strictly outside the other
C21_Witness ==
    \E t \in DOMAIN tasks :
        /\ \E k \in 1..2 : TargetWasInside(t, k)
        /\ Len(tasks[t].annot_ranges[op.a_id]) = 2
        /\ \E k \in 1..2 : ~TargetWasInside(t, k)

\* the last step was a pass of prepare's loop for an annotation that had no
\* target and has a range intersecting the view of task t
EnteredView(t) ==
    /\ op.name = "anchor" /\ op.old_tgt = None
    /\ VisibleRanges(op.a_id, tasks[t].view) # {}

\* C22: an annotation with no target that enters the view is given a target,
\* and the target is a point of one of its visible sub-ranges of positive
\* length: a sub-range of length zero (of weight zero) is not the one drawn from
C22_NewTargetInWeightedRange ==
    \A t \in DOMAIN tasks : EnteredView(t) =>
        /\ tasks[t].pc = "anchors"
        /\ LET new    == get_annot_obj(dynamics, op.a_id)[1].anchor_target_pos
               ranges == tasks[t].annot_ranges[op.a_id]
           IN  /\ new # None
               /\ \E k \in 1..Len(ranges) :
                     /\ ranges[k][2] - ranges[k][1] > 0
                     /\ ranges[k][1] <= new[1] /\ new[1] <= ranges[k][2]

\* a target was drawn for an annotation that has a sub-range of length zero
\* beside one of positive length
C22_Witness ==
    \E t \in DOMAIN tasks :
        /\ EnteredView(t) /\ tasks[t].pc = "anchors"
        /\ \E k \in 1..Len(tasks[t].annot_ranges[op.a_id]) :
              tasks[t].annot_ranges[op.a_id][k][1] = tasks[t].annot_ranges[op.a_id][k][2]

\* the ids with at least one index range intersecting the view
VisibleIds(view) == { annots[i].data : i \in { j \in 1..Len(annots) : Intersects(annots[j], view) } }

\* a step of the layout task
TaskStep == op'.name \in {"task", "anchor"}

\* C23: a layout task leaves the tracked object (target, measured size) of an
\* annotation with no visible sub-range as it was and keeps the annotation out
\* of the visible set, and when the task ends the visible set is exactly the set
\* of ids with a range intersecting the task's view
C23_InvisibleKeepState ==
    [][TaskStep =>
          \A t \in DOMAIN tasks \cap DOMAIN tasks' :
              /\ tasks[t].pc \in {"prepare", "anchors"} =>
                    \A i \in 1..Len(dynamics.annot_shape_objs) :
                        dynamics.annot_shape_objs[i].annot_id \notin VisibleIds(tasks[t].view)
                            => /\ dynamics'.annot_shape_objs[i] = dynamics.annot_shape_objs[i]
                               /\ dynamics.annot_shape_objs[i].annot_id
                                      \notin dynamics'.visible_set
              /\ (tasks[t].pc # "finished" /\ tasks'[t].pc = "finished") =>
                    dynamics'.visible_set = VisibleIds(tasks[t].view)]_vars

\* the intervals of the index tagged a that the query of a task with this view
\* and screen rect turns into candidate sub-ranges
Hits(a, view, screen_rect) ==
    { i \in 1..Len(annots) :
        /\ annots[i].data = a
        /\ Min(annots[i].from, annots[i].to) <= view[2]
        /\ Max(annots[i].from, annots[i].to) >= view[1]
        /\ anchor_interval(view, <<annots[i].from, annots[i].to>>, screen_rect) # None }

\* C26: all the hits of a task's query that share an AnnotationId are in the one
\* candidate list of that id; an annotation has exactly one tracked object,
\* found under its id, and so one target; and it is at most once in the
\* visible set (a set, of tracked ids with a target) and in the stored output
C26_OneLabelPerId ==
    /\ \A t \in DOMAIN tasks : tasks[t].pc = "anchors" =>
          /\ DOMAIN tasks[t].annot_ranges =
                 { annots[i].data : i \in { j \in 1..Len(annots) :
                     j \in Hits(annots[j].data, tasks[t].view, tasks[t].screen_rect) } }
          /\ \A a \in DOMAIN tasks[t].annot_ranges :
                Len(tasks[t].annot_ranges[a])
                    = Cardinality(Hits(a, tasks[t].view, tasks[t].screen_rect))
    /\ \A i, j \in 1..Len(dynamics.annot_shape_objs) :
          dynamics.annot_shape_objs[i].annot_id = dynamics.annot_shape_objs[j].annot_id
              => i = j
    /\ \A i \in 1..Len(dynamics.annot_shape_objs) :
          /\ dynamics.annot_shape_objs[i].annot_id \in DOMAIN dynamics.annot_obj_map
          /\ dynamics.annot_obj_map[dynamics.annot_shape_objs[i].annot_id] = i
    /\ \A a \in dynamics.visible_set :
          /\ a \in DOMAIN dynamics.annot_obj_map
          /\ get_annot_obj(dynamics, a)[1].anchor_target_pos # None
    /\ \A i, j \in 1..Len(positions) : positions[i][1] = positions[j][1] => i = j

\* an annotation with two hits in this task, tracked since an earlier task, has
\* been handled and is visible
C26_Witness ==
    \E t \in DOMAIN tasks :
        /\ tasks[t].pc = "anchors"
        /\ op.name = "anchor" /\ op.old_tgt # None
        /\ Cardinality(Hits(op.a_id, tasks[t].view, tasks[t].screen_rect)) = 2
        /\ op.a_id \in dynamics.visible_set

----------------------------------------------------------------------------
\* View transform

\* task t takes its last step, out of update_simple
EndsUpdateSimple(t) ==
    tasks[t].pc = "anchors" /\ tasks[t].todo = {} /\ tasks'[t].pc = "finished"

\* C24: when a layout task ends, the target of every visible annotation lies
\* within one of the annotation's visible sub-ranges for the task's view (the
\* view transform having been applied before anchor selection)
C24_TargetsInRangeAtTaskEnd ==
    [][\A t \in DOMAIN tasks \cap DOMAIN tasks' : EndsUpdateSimple(t) =>
          \A a \in dynamics'.visible_set :
              LET tgt == get_annot_obj(dynamics', a)[1].anchor_target_pos[1]
              IN  \E k \in 1..Len(tasks[t].annot_ranges[a]) :
                      /\ tasks[t].annot_ranges[a][k][1] <= tgt
                      /\ tgt <= tasks[t].annot_ranges[a][k][2]]_vars

\* C25: when the previous and the current view of a task differ, update_simple
\* applies the view transform to the target and position of every object
\* tracked in the dynamics, visible or not; when they are equal, or there is no
\* previous view, it changes no target and no position
C25_TransformOnAllTracked ==
    [][\A t \in DOMAIN tasks \cap DOMAIN tasks' : EndsUpdateSimple(t) =>
          LET transform == ViewTransform(dynamics)
              rect      == tasks[t].screen_rect
          IN  \A i \in 1..Len(dynamics.annot_shape_objs) :
                  LET obj  == dynamics.annot_shape_objs[i]
                      obj_ == dynamics'.annot_shape_objs[i]
                  IN  IF transform = None
                      THEN obj_ = obj
                      ELSE /\ obj_.anchor_target_pos
                                = apply_tf(transform[1], rect, obj.anchor_target_pos)
                           /\ obj_.anchor_pos = apply_tf(transform[1], rect, obj.anchor_pos)]_vars

----------------------------------------------------------------------------
\* Placement

\* the extents [x1 - w1/2, x1 + w1/2] and [x2 - w2/2, x2 + w2/2] overlap
\* (compared doubled, to stay on the integers)
ExtentsOverlap(x1, w1, x2, w2) == 2 * x1 - w1 <= 2 * x2 + w2 /\ 2 * x2 - w2 <= 2 * x1 + w1

\* the object of annotation a_id, which has one
ObjOf(a_id) == get_annot_obj(dynamics, a_id)[1]

\* C14: every layout task that has ended has returned a result list, and the
\* extents of any two distinct entries of it do not overlap, the width of an
\* entry being the measured width of its annotation or the default one
C14_ResultExtentsDisjoint ==
    \A t \in DOMAIN tasks : tasks[t].pc = "finished" =>
        LET r == tasks[t].result[1]
        IN  /\ r.ok
            /\ \A i, j \in 1..Len(r.val) : i # j =>
                   ~ExtentsOverlap(r.val[i][2], Width(ObjOf(r.val[i][1])),
                                   r.val[j][2], Width(ObjOf(r.val[j][1])))

\* the order of placement: ascending target position, ties by AnnotationId
PlacedBefore(dyn, a, b) ==
    LET ta == get_annot_obj(dyn, a)[1].anchor_target_pos[1]
        tb == get_annot_obj(dyn, b)[1].anchor_target_pos[1]
    IN  ta < tb \/ (ta = tb /\ a < b)

\* C15: update_simple ends with a result list determined by the visible set and
\* the targets: its entries are visible annotations at their targets, in
\* ascending order of target position with ties broken by AnnotationId
C15_PlacementDeterministic ==
    [][\A t \in DOMAIN tasks \cap DOMAIN tasks' :
          (tasks[t].pc = "anchors" /\ tasks[t].todo = {} /\ tasks'[t].pc = "finished") =>
              LET r == tasks'[t].result[1]
              IN  /\ r.ok
                  /\ \A i \in 1..Len(r.val) : r.val[i][1] \in dynamics'.visible_set
                  /\ \A i, j \in 1..Len(r.val) :
                        i < j => PlacedBefore(dynamics', r.val[i][1], r.val[j][1])]_vars

\* annotation a is visible and its extent overlaps that of no other visible one
Isolated(a) ==
    /\ a \in dynamics.visible_set
    /\ \A b \in dynamics.visible_set \ {a} :
          ~ExtentsOverlap(ObjOf(a).anchor_target_pos[1], Width(ObjOf(a)),
                          ObjOf(b).anchor_target_pos[1], Width(ObjOf(b)))

\* C16: the tick that joins a finished task stores a result in which every
\* visible annotation whose extent overlaps no other visible annotation's
\* extent appears
C16_IsolatedAnnotationsInOutput ==
    [][(Tick /\ task # None /\ is_finished(task[1])) =>
          \A a \in dynamics.visible_set :
              Isolated(a) => \E i \in 1..Len(positions') : positions'[i][1] = a]_vars

----------------------------------------------------------------------------
\* Annots1D

\* C27: the k-th insert_slot returns the id k - 1, so no id is returned twice,
\* and get finds under every id returned the slot that was inserted with it,
\* whatever was inserted since
C27_SlotIdsFreshAndKept ==
    /\ \A i \in 1..Len(hist) : hist[i].ret = i - 1
    /\ \A i, j \in 1..Len(hist) : i < j => hist[i].ret # hist[j].ret
    /\ \A i \in 1..Len(hist) : get(annots_1d, hist[i].ret) = Some(hist[i].slot)
    /\ op.name = "get" =>
          \A i \in 1..Len(hist) : hist[i].ret = op.slot_id => op.ret = Some(hist[i].slot)

\* get has found the first slot after two other slots, unlike it, were inserted
C27_Witness ==
    /\ op.name = "get" /\ op.slot_id = 0 /\ op.ret # None
    /\ Len(hist) >= 3
    /\ hist[2].slot # hist[1].slot /\ hist[3].slot # hist[1].slot
    /\ hist[2].path = hist[1].path

\* the id the most recent insert_slot for the path returned, None if there is none
LastInsert(path) ==
    LET calls == { i \in 1..Len(hist) : hist[i].path = path }
    IN  IF calls = {} THEN None
        ELSE Some(hist[CHOOSE i \in calls : \A j \in calls : j <= i].ret)

\* C28: get_path_slot_id(path) is the id returned by the most recent
\* insert_slot for the path, None for a path never used, and get resolves
\* every id it returns
C28_PathSlotIsLatest ==
    /\ \A path \in PathIds :
          /\ get_path_slot_id(annots_1d, path) = LastInsert(path)
          /\ get_path_slot_id(annots_1d, path) # None
                => get(annots_1d, get_path_slot_id(annots_1d, path)[1]) # None
    /\ op.name = "get_path_slot_id" =>
          /\ op.ret = LastInsert(op.path)
          /\ op.ret # None => get(annots_1d, op.ret[1]) # None

\* a path was given a slot, another path one, then the first path a new one,
\* and get_path_slot_id has been asked for the first path
C28_Witness ==
    /\ op.name = "get_path_slot_id"
    /\ Len(hist) >= 3
    /\ hist[1].path = op.path /\ hist[2].path # op.path /\ hist[3].path = op.path
    /\ op.ret = Some(hist[3].ret)

----------------------------------------------------------------------------
\* ConfigMap

\* the schema of the map has a type for op'.key other than that of the value
\* passed to set
SetMismatch ==
    /\ cfg.schema # None
    /\ op'.key \in DOMAIN cfg.schema[1]
    /\ cfg.schema[1][op'.key] # op'.arg.type

\* C19: set returns false exactly when the type of the value is not the one the
\* schema has for the key, and then the map is unchanged; otherwise (and always
\* when there is no schema) the value is stored under the key
C19_SetFalseIffRejected ==
    [][op'.name = "set" =>
          /\ (op'.ret = Ok(DynFALSE)) <=> SetMismatch
          /\ SetMismatch => cfg' = cfg
          /\ ~SetMismatch => (op'.key \in DOMAIN cfg'.map /\ cfg'.map[op'.key] = op'.arg)
          /\ cfg.schema = None => ~SetMismatch]_vars

\* C29: a map that starts empty, under any schema, and is changed by set and
\* update only, holds under every key of the schema a value of the type the
\* schema has for the key
C29_MapConformsToSchema ==
    cfg.schema # None =>
        \A key \in DOMAIN cfg.schema[1] \cap DOMAIN cfg.map :
            cfg.map[key].type = cfg.schema[1][key]

\* a key of the schema holds a value, and a set of a value of another type under
\* it has been turned down
C29_Witness ==
    /\ op.name = "set"
    /\ cfg.schema # None
    /\ op.key \in DOMAIN cfg.schema[1] \cap DOMAIN cfg.map
    /\ op.arg.type # cfg.schema[1][op.key]
    /\ op.ret = Ok(DynFALSE)

\* C30: update of a key the map lacks returns unit and leaves the map as it is;
\* when the callback returns a value of a type other than that of the stored
\* value, update returns false and leaves the map as it is; when it returns a
\* value of the same type, this value is stored under the key, is returned,
\* and is what get then returns
C30_UpdateStoresSameType ==
    [][op'.name = "update" =>
          IF op'.key \notin DOMAIN cfg.map
          THEN op'.ret = Ok(DynUNIT) /\ cfg' = cfg
          ELSE LET result == Call(op'.arg, cfg.map[op'.key])
               IN  /\ (result # None /\ result[1].type # cfg.map[op'.key].type)
                        => (op'.ret = Ok(DynFALSE) /\ cfg' = cfg)
                   /\ (result # None /\ result[1].type = cfg.map[op'.key].type)
                        => /\ cfg' = [cfg EXCEPT !.map[op'.key] = result[1]]
                           /\ op'.ret = Ok(result[1])
                           /\ get_str_key(cfg', op'.key).ret = Ok(result[1])]_vars

\* update has replaced a stored boolean by the boolean the callback made of it
C30_Witness ==
    /\ op.name = "update" /\ op.arg = "flip"
    /\ op.key \in DOMAIN cfg.map
    /\ cfg.map[op.key].type = "bool"
    /\ op.ret = Ok(cfg.map[op.key])

====
